---- MODULE Spec2Model ----
(***************************************************************************)
(* Index samplers of catalyst/data/sampler.py:                             *)
(*   BalanceClassSampler, MiniEpochSampler, DynamicLenBatchSampler,        *)
(*   DistributedSamplerWrapper.                                            *)
(* Dataset indices are the Python values 0..N-1; a Python list or numpy    *)
(* array is a TLA+ sequence, so Python position p is sequence position p+1.*)
(***************************************************************************)
EXTENDS Integers, Sequences, FiniteSets, TLC

VARIABLES
    bcs,        \* BalanceClassSampler: the object's fields, or the failed construction
    bcs_out,    \* the list the last BalanceClassSampler.__iter__ call returned
    bcs_raised, \* the error the last BalanceClassSampler.__iter__ call raised ("" when it returned)
    bcs_calls,  \* number of BalanceClassSampler.__iter__ calls made so far
    mes,        \* MiniEpochSampler: the object's fields, or the failed construction
    mes_out,    \* the list the last MiniEpochSampler.__iter__ call returned
    mes_cursor, \* self.state_i as the last __iter__ call sliced with it (-1: no call yet)
    mes_calls,  \* number of MiniEpochSampler.__iter__ calls made so far
    mes_seen,   \* indices returned since the last call that sliced at cursor 0
    mes_len,    \* the value the last MiniEpochSampler.__len__ call returned (-1: no call yet)
    dls,        \* DynamicLenBatchSampler: its fields, the wrapped sampler and data source
    gen,        \* the locals of the running DynamicLenBatchSampler.__iter__ generator
    dls_consumed,   \* the indices pulled from self.sampler so far, in order
    dls_emitted,    \* the batches yielded so far, in order
    dsw,        \* DistributedSamplerWrapper: the fields the replicas share
    dsw_out     \* per rank, the outcome of that replica's __iter__ call

bcsVars == <<bcs, bcs_out, bcs_raised, bcs_calls>>
mesVars == <<mes, mes_out, mes_cursor, mes_calls, mes_seen, mes_len>>
dlsVars == <<dls, gen, dls_consumed, dls_emitted>>
dswVars == <<dsw, dsw_out>>
vars == <<bcsVars, mesVars, dlsVars, dswVars>>

\* ------------------------------------------------------------------ bounds
MaxLabels == 3      \* longest label list
MaxMode == 3        \* largest explicit integer mode
MaxPassLen == 4     \* longest resolved pass (samples_per_class * classes)
MaxIters == 2       \* __iter__ calls followed on one BalanceClassSampler

LabelValues == {0, 1, 2}

\* ------------------------------------------------------------- list helpers
SetMin(S) == CHOOSE x \in S : \A y \in S : x <= y
SetMax(S) == CHOOSE x \in S : \A y \in S : x >= y

Range(s) == {s[i] : i \in DOMAIN s}

\* sorted(S) / the ascending order numpy's boolean mask keeps
RECURSIVE SortedSeq(_)
SortedSeq(S) ==
    IF S = {} THEN <<>>
    ELSE LET m == SetMin(S) IN <<m>> \o SortedSeq(S \ {m})

\* a[start:stop] on a list or array, Python positions, stop clamped to len(a)
Slice(a, start, stop) ==
    LET hi == IF stop < Len(a) THEN stop ELSE Len(a)
    IN  IF start >= hi THEN <<>>
        ELSE [i \in 1..(hi - start) |-> a[start + i]]

\* number of occurrences of x in the sequence s
Occurrences(s, x) == Cardinality({i \in DOMAIN s : s[i] = x})

\* np.random.shuffle(a): every reordering of a is a possible outcome
Shuffles(a) ==
    {[i \in 1..Len(a) |-> a[p[i]]] : p \in Permutations(1..Len(a))}

\* ------------------------------------------------------ BalanceClassSampler
\* mode: Union[str, int]
StrMode(s) == [isstr |-> TRUE, str |-> s, int |-> 0]
IntMode(k) == [isstr |-> FALSE, str |-> "", int |-> k]

\* {label: (labels == label).sum() for label in set(labels)}
ClassCounts(labels) ==
    [label \in Range(labels) |-> Occurrences(labels, label)]

\* {label: np.arange(len(labels))[labels == label].tolist() ...}
Lbl2Idx(labels) ==
    [label \in Range(labels) |->
        SortedSeq({i - 1 : i \in {j \in DOMAIN labels : labels[j] = label}})]

\* the assertion left out
ModeNeverChecked(mode) == TRUE

\* assert mode in ["downsampling", "upsampling"] for a string mode
ModeAccepted(mode) ==
    mode.isstr => mode.str \in {"downsampling", "upsampling"}

\* the two string modes exchanged
ResolveSwapped(counts, mode) ==
    IF ~mode.isstr THEN mode.int
    ELSE IF mode.str = "upsampling" THEN SetMin(Range(counts))
    ELSE SetMax(Range(counts))

\* lines 44-51: the target count per class
ResolveSamplesPerClass(counts, mode) ==
    IF ~mode.isstr \/ mode.str = "upsampling"
    THEN IF ~mode.isstr THEN mode.int ELSE SetMax(Range(counts))
    ELSE SetMin(Range(counts))

\* len(labels) in place of len(set(labels))
PassLengthPerElement(spc, labels) == spc * Len(labels)

\* self.length = self.samples_per_class * len(set(labels))
PassLength(spc, labels) == spc * Cardinality(Range(labels))

\* BalanceClassSampler.__init__
BalanceInit(labels, mode) ==
    IF ~ModeAccepted(mode)
    THEN [status |-> "AssertionError", labels |-> labels, mode |-> mode,
          lbl2idx |-> <<>>, samples_per_class |-> 0, length |-> 0]
    ELSE LET spc == ResolveSamplesPerClass(ClassCounts(labels), mode)
         IN  [status |-> "ok", labels |-> labels, mode |-> mode,
              lbl2idx |-> Lbl2Idx(labels),
              samples_per_class |-> spc,
              length |-> PassLength(spc, labels)]

\* the replace flag ignored: every draw is with replacement
ChoiceAlwaysReplacing(a, size, replace) == [1..size -> Range(a)]

\* np.random.choice(a, size, replace=replace): the possible draws
Choice(a, size, replace) ==
    {d \in [1..size -> Range(a)] :
        replace \/ \A i, j \in 1..size : d[i] = d[j] => i = j}

\* lines 62-67: the concatenated per-class draws, classes in sorted order
RECURSIVE DrawClasses(_, _)
DrawClasses(keys, self) ==
    IF keys = <<>> THEN {<<>>}
    ELSE LET key == Head(keys)
             replace_ == self.samples_per_class > Len(self.lbl2idx[key])
         IN  {d \o rest :
                d \in Choice(self.lbl2idx[key], self.samples_per_class, replace_),
                rest \in DrawClasses(Tail(keys), self)}

LabelLists == UNION {[1..n -> LabelValues] : n \in 1..MaxLabels}
Modes == {StrMode("downsampling"), StrMode("upsampling"), StrMode("sideways")}
            \cup {IntMode(k) : k \in 1..MaxMode}

\* no BalanceClassSampler under study
BalanceIdle ==
    /\ bcs = [status |-> "none"]
    /\ bcs_out = <<>>
    /\ bcs_raised = ""
    /\ bcs_calls = 0

BalanceStart ==
    /\ \E labels \in LabelLists, mode \in Modes :
          /\ bcs = BalanceInit(labels, mode)
          /\ bcs.length <= MaxPassLen
    /\ bcs_out = <<>>
    /\ bcs_raised = ""
    /\ bcs_calls = 0

\* BalanceClassSampler.__iter__
BalanceIter ==
    /\ bcs.status = "ok"
    /\ bcs_calls < MaxIters
    /\ \E indices \in DrawClasses(SortedSeq(DOMAIN bcs.lbl2idx), bcs) :
          IF Len(indices) # bcs.length          \* assert len(indices) == self.length
          THEN /\ bcs_raised' = "AssertionError"
               /\ UNCHANGED bcs_out
          ELSE /\ bcs_raised' = ""
               /\ \E shuffled \in Shuffles(indices) : bcs_out' = shuffled
    /\ bcs_calls' = bcs_calls + 1
    /\ UNCHANGED <<bcs, mesVars, dlsVars, dswVars>>

\* BalanceClassSampler.__len__
BalanceLen(self) == self.length

\* --------------------------------------------------------- MiniEpochSampler
MaxDataLen == 4         \* largest dataset
MaxMiniEpochLen == 3    \* largest mini_epoch_len
MaxCalls == 5           \* __iter__ calls followed on one MiniEpochSampler

\* np.arange(n)
Arange(n) == [i \in 1..n |-> i - 1]

\* line 118: int(data_len / self.mini_epoch_len), both positive
Steps(data_len, mini_epoch_len) == data_len \div mini_epoch_len

\* line 121
HasReminder(data_len, steps, mini_epoch_len) ==
    data_len - steps * mini_epoch_len > 0

\* the drop_last test left out
DividerKeepingLast(steps, has_reminder, drop_last) ==
    IF steps = 0 THEN 1
    ELSE IF has_reminder THEN steps + 1
    ELSE steps

\* lines 122-127
Divider(steps, has_reminder, drop_last) ==
    IF steps = 0 THEN 1
    ELSE IF has_reminder /\ ~drop_last THEN steps + 1
    ELSE steps

\* line 133: the shuffle values the constructor accepts (None is "None")
ShuffleAccepted(shuffle) ==
    shuffle = "None" \/ shuffle \in {"per_mini_epoch", "per_epoch"}

\* MiniEpochSampler.__init__
MiniInit(data_len, mini_epoch_len, drop_last, shuffle) ==
    LET steps == Steps(data_len, mini_epoch_len)
        has_reminder == HasReminder(data_len, steps, mini_epoch_len)
        self == [status |-> "ok",
                 data_len |-> data_len,
                 mini_epoch_len |-> mini_epoch_len,
                 drop_last |-> drop_last,
                 steps |-> steps,
                 state_i |-> 0,
                 divider |-> Divider(steps, has_reminder, drop_last),
                 x_indices |-> Arange(data_len),     \* self._indices
                 indices |-> Arange(data_len),       \* the same array object
                 end_pointer |-> IF data_len > mini_epoch_len
                                 THEN data_len ELSE mini_epoch_len,
                 shuffle_type |-> shuffle]
    IN  IF ShuffleAccepted(shuffle) THEN self
        ELSE [self EXCEPT !.status = "ValueError"]

\* the state_i == 0 test left out
ShouldShuffleEveryCall(self) ==
    self.shuffle_type \in {"per_mini_epoch", "per_epoch"}

\* per_epoch redrawing before the last window of a pass instead of the first
ShouldShuffleAtPassEnd(self) ==
    \/ self.shuffle_type = "per_mini_epoch"
    \/ (self.shuffle_type = "per_epoch" /\ self.state_i = self.divider - 1)

\* lines 142-144: does this call redraw the ordering
ShouldShuffle(self) ==
    \/ self.shuffle_type = "per_mini_epoch"
    \/ (self.shuffle_type = "per_epoch" /\ self.state_i = 0)

\* MiniEpochSampler.shuffle: the objects the call may leave.
\* np.random.shuffle works in place on the array that self.indices and
\* self._indices both name; np.random.choice returns a new array.
MiniShuffle(self) ==
    IF ~ShouldShuffle(self)
    THEN {self}
    ELSE IF self.data_len >= self.mini_epoch_len
    THEN {[self EXCEPT !.indices = a, !.x_indices = a] :
            a \in Shuffles(self.x_indices)}
    ELSE {[self EXCEPT !.indices = a] :
            a \in [1..self.mini_epoch_len -> Range(self.x_indices)]}

\* the modulo left out
ReduceCursorNever(state_i, divider) == state_i

\* line 155
ReduceCursor(state_i, divider) == state_i % divider

\* the window taken to start one window late
WindowStartLate(self) == (self.state_i + 1) * self.mini_epoch_len

\* line 158
WindowStart(self) == self.state_i * self.mini_epoch_len

\* every window taken to run to end_pointer
WindowStopAtEnd(self) == self.end_pointer

\* lines 159-163
WindowStop(self) ==
    IF self.state_i = self.steps THEN self.end_pointer
    ELSE (self.state_i + 1) * self.mini_epoch_len

\* line 164
Window(self) == Slice(self.indices, WindowStart(self), WindowStop(self))

MiniIdle ==
    /\ mes = [status |-> "none"]
    /\ mes_out = <<>>
    /\ mes_cursor = -1
    /\ mes_calls = 0
    /\ mes_seen = {}
    /\ mes_len = -1

ShuffleValues == {"None", "per_mini_epoch", "per_epoch", "always"}

\* a sampler over a dataset that is not empty
MiniStart ==
    /\ \E data_len \in 1..MaxDataLen, mini_epoch_len \in 1..MaxMiniEpochLen,
          drop_last \in BOOLEAN, shuffle \in ShuffleValues :
          mes = MiniInit(data_len, mini_epoch_len, drop_last, shuffle)
    /\ mes_out = <<>>
    /\ mes_cursor = -1
    /\ mes_calls = 0
    /\ mes_seen = {}
    /\ mes_len = -1

\* MiniEpochSampler.__iter__
MiniIter ==
    /\ mes.status = "ok"
    /\ mes_calls < MaxCalls
    /\ mes_calls' = mes_calls + 1
    /\ LET reduced == [mes EXCEPT !.state_i = ReduceCursor(mes.state_i, mes.divider)]
       IN  /\ mes_cursor' = reduced.state_i
           /\ \E self \in MiniShuffle(reduced) :
                LET indices == Window(self)
                IN  /\ mes' = [self EXCEPT !.state_i = self.state_i + 1]
                    /\ mes_out' = indices
                    /\ mes_seen' = (IF reduced.state_i = 0 THEN {} ELSE mes_seen)
                                       \cup Range(indices)
    /\ UNCHANGED <<mes_len, bcsVars, dlsVars, dswVars>>

\* MiniEpochSampler.__len__
MiniLen(self) == self.mini_epoch_len

\* a __len__ that also advances the cursor
MiniLenCallAdvancing ==
    /\ mes.status = "ok"
    /\ mes_len' = MiniLen(mes)
    /\ mes' = [mes EXCEPT !.state_i = (mes.state_i + 1) % mes.divider]
    /\ UNCHANGED <<mes_out, mes_cursor, mes_calls, mes_seen,
                   bcsVars, dlsVars, dswVars>>

\* a __len__ call: returns MiniLen(mes) and assigns no field
MiniLenCall ==
    /\ mes.status = "ok"
    /\ mes_len' = MiniLen(mes)
    /\ UNCHANGED <<mes, mes_out, mes_cursor, mes_calls, mes_seen,
                   bcsVars, dlsVars, dswVars>>

\* --------------------------------------------------- DynamicLenBatchSampler
MaxIdx == 1         \* largest dataset index of the wrapped sampler's data source
MaxSrcLen == 4      \* largest len(self.sampler)
MaxBatch == 3       \* largest batch_size

NumBuckets == 100   \* buckets = [[]] * 100
Granularity == 64   \* int(count_zeros / 64)

\* zero counts an element of the data source may have
ZeroCounts == {0, 64, 6399, 6400}

\* BatchSampler.__len__ (torch), called as len(self) on line 248
BatchLen(n, batch_size, drop_last) ==
    IF drop_last THEN n \div batch_size
    ELSE (n + batch_size - 1) \div batch_size

\* lines 221-222: the bucket of an element with count_zeros zeros
BucketKey(count_zeros) == count_zeros \div Granularity

\* line 217: one list object (heap cell 1) named by every entry of buckets
DynamicGenInit ==
    [pc |-> "stream",
     heap |-> << <<>> >>,
     buckets |-> [k \in 0..(NumBuckets - 1) |-> 1],
     yielded |-> 0,
     batch |-> <<>>]

\* the shared list never replaced
NeverOwnList(bucket) == FALSE

\* line 223: is buckets[count_zeros] given a list of its own before the append
NeedsOwnList(bucket) == Len(bucket) = 0

\* line 228
BucketFull(bucket, batch_size) == Len(bucket) = batch_size

\* lines 221-232: the loop body for one idx of self.sampler; the generator's
\* locals after it and the batch it yielded, if any
StreamStep(g, self, idx) ==
    LET key == BucketKey(self.zeros[idx])
    IN  IF key >= NumBuckets
        THEN [gen |-> [g EXCEPT !.pc = "IndexError"], out |-> << >>]
        ELSE LET g1 == IF NeedsOwnList(g.heap[g.buckets[key]])
                       THEN [g EXCEPT !.heap = Append(g.heap, <<>>),
                                      !.buckets[key] = Len(g.heap) + 1]
                       ELSE g
                 cell == g1.buckets[key]
                 g2 == [g1 EXCEPT !.heap[cell] = Append(g1.heap[cell], idx)]
             IN  IF BucketFull(g2.heap[cell], self.batch_size)
                 THEN [gen |-> [g2 EXCEPT !.yielded = g2.yielded + 1,
                                          !.heap = Append(g2.heap, <<>>),
                                          !.buckets[key] = Len(g2.heap) + 1],
                       out |-> << g2.heap[cell] >>]
                 ELSE [gen |-> g2, out |-> << >>]

\* the buckets walked from the highest id down
RECURSIVE BucketsConcatDescending(_, _, _)
BucketsConcatDescending(g, lo, hi) ==
    IF lo > hi THEN <<>>
    ELSE IF lo = hi THEN g.heap[g.buckets[lo]]
    ELSE LET mid == (lo + hi) \div 2
         IN  BucketsConcatDescending(g, mid + 1, hi)
                 \o BucketsConcatDescending(g, lo, mid)

\* the contents of buckets[lo..hi], in bucket order
RECURSIVE BucketsConcat(_, _, _)
BucketsConcat(g, lo, hi) ==
    IF lo > hi THEN <<>>
    ELSE IF lo = hi THEN g.heap[g.buckets[lo]]
    ELSE LET mid == (lo + hi) \div 2
         IN  BucketsConcat(g, lo, mid) \o BucketsConcat(g, mid + 1, hi)

\* line 235: [idx for bucket in buckets for idx in bucket]
Leftover(g) == BucketsConcat(g, 0, NumBuckets - 1)

\* the drop_last test left out
FinalBatchAlwaysYielded(batch, drop_last) == Len(batch) > 0

\* line 244
FinalBatchYielded(batch, drop_last) == Len(batch) > 0 /\ ~drop_last

\* lines 237-242: the batches cut from leftover, each yielded when it
\* reaches batch_size, and the batch the loop ends with
Rechunk(leftover, batch_size) ==
    LET full == Len(leftover) \div batch_size
    IN  [out |-> [c \in 1..full |->
                    SubSeq(leftover, (c - 1) * batch_size + 1, c * batch_size)],
         batch |-> SubSeq(leftover, full * batch_size + 1, Len(leftover))]

\* lines 234-251: after the sampler is exhausted
DrainStep(g, self) ==
    LET cut == Rechunk(Leftover(g), self.batch_size)
        last == FinalBatchYielded(cut.batch, self.drop_last)
        out == cut.out \o (IF last THEN << cut.batch >> ELSE << >>)
        yielded == g.yielded + Len(out)
        ok == BatchLen(self.n, self.batch_size, self.drop_last) = yielded
    IN  [gen |-> [g EXCEPT !.yielded = yielded,
                           !.batch = cut.batch,
                           !.pc = IF ok THEN "done" ELSE "AssertionError"],
         out |-> out]

DynamicIdle ==
    /\ dls = [status |-> "none"]
    /\ gen = [pc |-> "none"]
    /\ dls_consumed = <<>>
    /\ dls_emitted = <<>>

\* a sampler over a data source of MaxIdx + 1 elements, and a call of __iter__
DynamicStart ==
    /\ \E batch_size \in 1..MaxBatch, drop_last \in BOOLEAN, n \in 0..MaxSrcLen,
          zeros \in [0..MaxIdx -> ZeroCounts] :
          dls = [status |-> "ok", batch_size |-> batch_size,
                 drop_last |-> drop_last, n |-> n, zeros |-> zeros]
    /\ gen = DynamicGenInit
    /\ dls_consumed = <<>>
    /\ dls_emitted = <<>>

\* the for loop takes the next idx of self.sampler and runs the loop body
DynamicStream ==
    /\ gen.pc = "stream"
    /\ Len(dls_consumed) < dls.n
    /\ \E idx \in 0..MaxIdx :
          LET r == StreamStep(gen, dls, idx)
          IN  /\ gen' = r.gen
              /\ dls_consumed' = Append(dls_consumed, idx)
              /\ dls_emitted' = dls_emitted \o r.out
    /\ UNCHANGED <<dls, bcsVars, mesVars, dswVars>>

\* self.sampler is exhausted: the leftover batches and the final assertion
DynamicDrain ==
    /\ gen.pc = "stream"
    /\ Len(dls_consumed) = dls.n
    /\ LET r == DrainStep(gen, dls)
       IN  /\ gen' = r.gen
           /\ dls_emitted' = dls_emitted \o r.out
    /\ UNCHANGED <<dls, dls_consumed, bcsVars, mesVars, dswVars>>

\* ------------------------------------------------ DistributedSamplerWrapper
MaxWrapped == 3     \* largest len(sampler) of the wrapped sampler
MaxReplicas == 3    \* largest num_replicas

\* index values the wrapped sampler may yield (none of them a position)
SamplerValues == {10, 11}

\* catalyst.data.DatasetFromSampler(sampler): the sampler's output as a list
DatasetFromSampler(sampler) == sampler
\* DatasetFromSampler.__len__
DatasetLen(dataset) == Len(dataset)
\* DatasetFromSampler.__getitem__
DatasetGetItem(dataset, index) == dataset[index + 1]

\* torch DistributedSampler.__init__: num_samples and total_size
NumSamples(len, num_replicas) == (len + num_replicas - 1) \div num_replicas
TotalSize(len, num_replicas) == NumSamples(len, num_replicas) * num_replicas

\* a list repeated until it has at least size entries
RECURSIVE Repeated(_, _)
Repeated(a, size) ==
    IF size <= 0 \/ Len(a) = 0 THEN <<>>
    ELSE a \o Repeated(a, size - Len(a))

\* torch DistributedSampler.__iter__, "add extra samples to make it evenly
\* divisible": releases up to 1.7 append indices[:padding]; later releases
\* repeat the list when padding exceeds its length
PadIndices(indices, total_size, torch_pad) ==
    LET padding_size == total_size - Len(indices)
    IN  IF torch_pad = "slice" \/ padding_size <= Len(indices)
        THEN indices \o Slice(indices, 0, padding_size)
        ELSE indices \o Slice(Repeated(indices, padding_size), 0, padding_size)

\* indices[rank:total_size:num_replicas]
Subsample(indices, rank, total_size, num_replicas) ==
    LET hi == IF total_size < Len(indices) THEN total_size ELSE Len(indices)
        count == IF rank >= hi THEN 0
                 ELSE (hi - rank + num_replicas - 1) \div num_replicas
    IN  [k \in 1..count |-> indices[rank + (k - 1) * num_replicas + 1]]

\* torch DistributedSampler.__iter__ (super().__iter__() on line 297): the
\* positions of this rank, or the assertion that fails
DistributedPositions(self, rank) ==
    LET len == DatasetLen(self.dataset)
        total_size == TotalSize(len, self.num_replicas)
        indices == IF self.shuffle THEN self.randperm ELSE Arange(len)
        padded == PadIndices(indices, total_size, self.torch_pad)
        mine == Subsample(padded, rank, total_size, self.num_replicas)
    IN  IF Len(padded) # total_size \/ Len(mine) # NumSamples(len, self.num_replicas)
        THEN [status |-> "AssertionError", positions |-> <<>>]
        ELSE [status |-> "ok", positions |-> mine]

\* operator.itemgetter(*items)(obj): the item itself for one item, a tuple of
\* the items for several, TypeError for none
ItemGetter(items, dataset) ==
    IF Len(items) = 0 THEN [status |-> "TypeError", kind |-> "none", value |-> <<>>]
    ELSE IF Len(items) = 1
    THEN [status |-> "ok", kind |-> "item",
          value |-> <<DatasetGetItem(dataset, items[1])>>]
    ELSE [status |-> "ok", kind |-> "tuple",
          value |-> [k \in 1..Len(items) |-> DatasetGetItem(dataset, items[k])]]

\* iter(obj) on line 299: an int is not iterable
IterOf(got) ==
    IF got.status # "ok" THEN [status |-> got.status, values |-> <<>>]
    ELSE IF got.kind = "item" THEN [status |-> "TypeError", values |-> <<>>]
    ELSE [status |-> "ok", values |-> got.value]

\* DistributedSamplerWrapper.__iter__ of the replica with this rank
WrapperIter(self, rank) ==
    LET indexes_of_indexes == DistributedPositions(self, rank)
    IN  IF indexes_of_indexes.status # "ok"
        THEN [status |-> indexes_of_indexes.status, positions |-> <<>>,
              values |-> <<>>]
        ELSE LET r == IterOf(ItemGetter(indexes_of_indexes.positions, self.dataset))
             IN  [status |-> r.status,
                  positions |-> indexes_of_indexes.positions,
                  values |-> r.values]

NotCalled == [status |-> "none", positions |-> <<>>, values |-> <<>>]

DistIdle ==
    /\ dsw = [status |-> "none"]
    /\ dsw_out = <<>>

\* DistributedSamplerWrapper.__init__ on every replica: the same wrapped
\* sampler output, num_replicas and shuffle; randperm is the permutation
\* torch.randperm draws from the epoch seed, the same on every replica
DistStart ==
    /\ \E n \in 1..MaxWrapped, num_replicas \in 1..MaxReplicas, shuffle \in BOOLEAN,
          torch_pad \in {"slice", "repeat"} :
          \E sampler \in [1..n -> SamplerValues], randperm \in Shuffles(Arange(n)) :
             /\ shuffle \/ randperm = Arange(n)
             /\ dsw = [status |-> "ok",
                       sampler |-> sampler,
                       dataset |-> DatasetFromSampler(sampler),
                       num_replicas |-> num_replicas,
                       shuffle |-> shuffle,
                       randperm |-> randperm,
                       torch_pad |-> torch_pad]
             /\ dsw_out = [rank \in 0..(num_replicas - 1) |-> NotCalled]

\* the replica with this rank calls __iter__
DistIter(rank) ==
    /\ dsw.status = "ok"
    /\ dsw_out[rank].status = "none"
    /\ LET self == [dsw EXCEPT !.dataset = DatasetFromSampler(dsw.sampler)]
       IN  /\ dsw' = self
           /\ dsw_out' = [dsw_out EXCEPT ![rank] = WrapperIter(self, rank)]
    /\ UNCHANGED <<bcsVars, mesVars, dlsVars>>

\* ----------------------------------------------------------- specifications
InitBalance == BalanceStart /\ MiniIdle /\ DynamicIdle /\ DistIdle
NextBalance == BalanceIter
SpecBalance == InitBalance /\ [][NextBalance]_vars

InitMini == MiniStart /\ BalanceIdle /\ DynamicIdle /\ DistIdle
NextMini == MiniIter \/ MiniLenCall
SpecMini == InitMini /\ [][NextMini]_vars

InitDynamic == DynamicStart /\ BalanceIdle /\ MiniIdle /\ DistIdle
NextDynamic == DynamicStream \/ DynamicDrain
SpecDynamic == InitDynamic /\ [][NextDynamic]_vars

\* one sampler of either class is constructed and then used
InitSamplers == InitBalance \/ InitMini
NextSamplers == NextBalance \/ NextMini
SpecSamplers == InitSamplers /\ [][NextSamplers]_vars

InitDistributed == DistStart /\ BalanceIdle /\ MiniIdle /\ DynamicIdle
NextDistributed == \E rank \in DOMAIN dsw_out : DistIter(rank)
SpecDistributed == InitDistributed /\ [][NextDistributed]_vars

\* =================================================================== claims

\* the labels of the classes and the size of each class bucket
ClassSizes == {Occurrences(bcs.labels, l) : l \in Range(bcs.labels)}
LabelOfIndex(idx) == bcs.labels[idx + 1]

\* C1: a BalanceClassSampler reports length() == samples_per_class * (number
\* of distinct labels), and every pass an __iter__ call returns, the first or
\* a later one, has that length and holds exactly samples_per_class indices
\* of each distinct label.
C1_BalancedPass ==
    bcs.status = "ok" =>
        /\ BalanceLen(bcs) = bcs.samples_per_class * Cardinality(Range(bcs.labels))
        /\ bcs_calls > 0 =>
            /\ bcs_raised = ""
            /\ Len(bcs_out) = BalanceLen(bcs)
            /\ \A i \in DOMAIN bcs_out : bcs_out[i] \in 0..(Len(bcs.labels) - 1)
            /\ \A l \in Range(bcs.labels) :
                  Cardinality({i \in DOMAIN bcs_out : LabelOfIndex(bcs_out[i]) = l})
                      = bcs.samples_per_class

\* C1 witness: a second pass over unequal classes, one drawn with replacement
\* and one without
C1_Witness ==
    /\ bcs.status = "ok"
    /\ bcs_calls >= 2
    /\ \E l \in Range(bcs.labels) : Occurrences(bcs.labels, l) < bcs.samples_per_class
    /\ \E l \in Range(bcs.labels) : Occurrences(bcs.labels, l) >= bcs.samples_per_class
    /\ Len(bcs_out) = 4

\* C2: samples_per_class is the minimum class-bucket size for "downsampling",
\* the maximum for "upsampling" and the given integer for an integer mode,
\* and stays so after any number of __iter__ calls.
C2_Resolved ==
    bcs.status = "ok" =>
        bcs.samples_per_class =
            IF ~bcs.mode.isstr THEN bcs.mode.int
            ELSE IF bcs.mode.str = "downsampling" THEN SetMin(ClassSizes)
            ELSE SetMax(ClassSizes)

\* C2 witness: after a pass, upsampling over classes of different sizes
C2_Witness ==
    /\ bcs.status = "ok"
    /\ bcs_calls >= 1
    /\ bcs.mode = StrMode("upsampling")
    /\ SetMin(ClassSizes) < SetMax(ClassSizes)
    /\ bcs.samples_per_class = 2

MiniReturned == mes.status = "ok" /\ mes_calls > 0
Universe == 0..(mes.data_len - 1)
Remainder == mes.data_len % mes.mini_epoch_len

\* C3 as stated: 0 <= state_i < divider in every reachable state.
C3_AsStated ==
    mes.status = "ok" => (0 <= mes.state_i /\ mes.state_i < mes.divider)

\* C3 amended: 0 <= state_i <= divider in every reachable state; state_i <
\* divider after construction and whenever __iter__ slices (after its modulo),
\* and a call that returned leaves state_i one above the cursor it sliced at,
\* which is divider after the last window of a pass.
C3_CursorRange ==
    mes.status = "ok" =>
        /\ 0 <= mes.state_i /\ mes.state_i <= mes.divider
        /\ mes_calls = 0 => mes.state_i = 0
        /\ mes_calls > 0 => (0 <= mes_cursor /\ mes_cursor < mes.divider)
        /\ MiniReturned => mes.state_i = mes_cursor + 1

\* C3 witness: state_i equals divider after the last window of a second pass
C3_Witness ==
    /\ MiniReturned
    /\ mes.divider >= 2
    /\ mes.state_i = mes.divider
    /\ mes_calls = 2 * mes.divider

\* C4: divider is steps with no remainder or with drop_last, steps + 1
\* otherwise, and 1 when steps == 0; call number k (from 0) slices window
\* k mod divider.
C4_WindowCycle ==
    mes.status = "ok" =>
        /\ mes.steps = mes.data_len \div mes.mini_epoch_len
        /\ mes.divider =
              IF mes.steps = 0 THEN 1
              ELSE IF Remainder = 0 \/ mes.drop_last THEN mes.steps
              ELSE mes.steps + 1
        /\ mes_calls > 0 => mes_cursor = (mes_calls - 1) % mes.divider
        /\ MiniReturned => mes_out = Window([mes EXCEPT !.state_i = mes_cursor])

\* C4 witness: the call after a pass of three or more windows is back at window 0
C4_Witness ==
    /\ MiniReturned
    /\ mes.divider >= 3
    /\ mes_calls = mes.divider + 1
    /\ mes_cursor = 0
    /\ mes_out # <<>>

\* the last call completed a pass: it sliced the last window
PassComplete == MiniReturned /\ mes_cursor = mes.divider - 1

\* C5 as stated: for every configuration and shuffle policy, the windows of
\* one pass together hold every index of the universe.
C5_AsStated == PassComplete => Universe \subseteq mes_seen

\* no remainder is cut off the pass
NothingDropped ==
    ~mes.drop_last \/ Remainder = 0 \/ mes.data_len < mes.mini_epoch_len
\* every window of the pass is cut from one ordering of the universe
OneOrdering ==
    \/ mes.shuffle_type = "None"
    \/ (mes.shuffle_type = "per_epoch" /\ mes.data_len >= mes.mini_epoch_len)

\* C5 amended: the windows of one pass together hold every index of the
\* universe when no remainder is dropped (drop_last false, or data_len a
\* multiple of mini_epoch_len, or data_len < mini_epoch_len) and the pass is
\* cut from one ordering (shuffle None, or per_epoch with data_len >=
\* mini_epoch_len).
C5_PassCovers ==
    (PassComplete /\ NothingDropped /\ OneOrdering) => Universe \subseteq mes_seen

\* C5 witness: a second per_epoch pass with a remainder window, reshuffled
C5_Witness ==
    /\ PassComplete
    /\ mes.shuffle_type = "per_epoch"
    /\ ~mes.drop_last
    /\ Remainder # 0
    /\ mes.divider >= 2
    /\ mes_calls = 2 * mes.divider
    /\ mes.indices # Arange(mes.data_len)

\* C6: with drop_last and data_len not a multiple of mini_epoch_len, every
\* returned window has exactly mini_epoch_len indices.
C6_NoShortWindow ==
    (MiniReturned /\ mes.drop_last /\ Remainder # 0) =>
        Len(mes_out) = mes.mini_epoch_len

\* C7 as stated: every __iter__ call yields __len__() indices.
C7_AsStated == MiniReturned => Len(mes_out) = MiniLen(mes)

\* the array was resampled with replacement
Resampled ==
    mes.data_len < mes.mini_epoch_len /\ mes.shuffle_type # "None"

\* C7 amended: a call that slices at a cursor below steps yields __len__()
\* indices; the call at cursor == steps yields the data_len - steps *
\* mini_epoch_len leftover indices, or __len__() indices when the array was
\* resampled (data_len < mini_epoch_len under a shuffle policy).
C7_WindowLength ==
    MiniReturned =>
        Len(mes_out) =
            IF mes_cursor < mes.steps \/ Resampled THEN MiniLen(mes)
            ELSE mes.data_len - mes.steps * mes.mini_epoch_len

\* C7 witness: a full window of the second pass after a short remainder window
C7_Witness ==
    /\ MiniReturned
    /\ ~mes.drop_last
    /\ Remainder # 0
    /\ mes.steps >= 1
    /\ mes_calls = mes.divider + 1
    /\ Len(mes_out) = MiniLen(mes)
    /\ MiniLen(mes) >= 2

\* C8: when data_len < mini_epoch_len, for every shuffle policy every
\* __iter__ call returns mini_epoch_len indices drawn from the universe.
C8_Resampled ==
    (MiniReturned /\ mes.data_len < mes.mini_epoch_len) =>
        /\ Len(mes_out) = mes.mini_epoch_len
        /\ Range(mes_out) \subseteq Universe

\* the number of times idx occurs in the batches, and their total size
EmittedCount(batches, idx) ==
    Cardinality({bi \in (DOMAIN batches) \X (1..dls.batch_size) :
                    /\ bi[2] \in DOMAIN batches[bi[1]]
                    /\ batches[bi[1]][bi[2]] = idx})
EmittedTotal(batches) ==
    Cardinality({bi \in (DOMAIN batches) \X (1..dls.batch_size) :
                    bi[2] \in DOMAIN batches[bi[1]]})

\* the pass ran to its end: the sampler was exhausted and the leftover cut
Drained == gen.pc \in {"done", "AssertionError"}

\* C9: on a fully drained pass over a sampler that yields len(sampler)
\* indices the final assertion holds: the batches emitted number
\* floor(n / batch_size) with drop_last, ceil(n / batch_size) without.
C9_BatchCount ==
    Drained =>
        /\ gen.pc = "done"
        /\ gen.yielded = Len(dls_emitted)
        /\ Len(dls_emitted) =
              IF dls.drop_last \/ dls.n % dls.batch_size = 0
              THEN dls.n \div dls.batch_size
              ELSE dls.n \div dls.batch_size + 1

\* C9 witness: a drained pass with a batch from the stream, a batch cut from
\* the leftover of two buckets, and a final partial batch
C9_Witness ==
    /\ gen.pc = "done"
    /\ ~dls.drop_last
    /\ dls.n % dls.batch_size # 0
    /\ Len(dls_emitted) >= 2
    /\ Len(dls_emitted[Len(dls_emitted)]) < dls.batch_size
    /\ \E i, j \in DOMAIN dls_consumed :
          BucketKey(dls.zeros[dls_consumed[i]]) # BucketKey(dls.zeros[dls_consumed[j]])

\* C10: over a fully drained pass the emitted indices are, as a multiset, the
\* consumed ones when drop_last is false; with drop_last they are the
\* consumed ones less the final partial batch, which has fewer than
\* batch_size indices.
C10_NoIndexLost ==
    Drained =>
        LET dropped == IF FinalBatchYielded(gen.batch, dls.drop_last)
                       THEN <<>> ELSE gen.batch
        IN  /\ Len(dropped) < dls.batch_size
            /\ ~dls.drop_last => dropped = <<>>
            /\ \A idx \in 0..MaxIdx :
                  EmittedCount(dls_emitted, idx) + Occurrences(dropped, idx)
                      = Occurrences(dls_consumed, idx)

\* C10 witness: a drained drop_last pass that emitted a batch and dropped a
\* partial one
C10_Witness ==
    /\ gen.pc = "done"
    /\ dls.drop_last
    /\ gen.batch # <<>>
    /\ Len(dls_emitted) >= 1
    /\ EmittedTotal(dls_emitted) + Len(gen.batch) = Len(dls_consumed)

\* C11: the bucket key of every streamed index lies in 0..99, so every index
\* is placed in one of the 100 buckets whatever the element's zero count.
C11_KeyCapped ==
    gen.pc # "none" =>
        /\ gen.pc # "IndexError"
        /\ \A i \in DOMAIN dls_consumed :
              BucketKey(dls.zeros[dls_consumed[i]]) \in 0..(NumBuckets - 1)

\* the replicas that have called __iter__, and whether all of them have
Called == {rank \in DOMAIN dsw_out : dsw_out[rank].status # "none"}
AllCalled == dsw.status = "ok" /\ Called = DOMAIN dsw_out
\* how often v occurs in the values the replicas received
ReceivedCount(v) ==
    Cardinality({rk \in (DOMAIN dsw_out) \X (1..MaxWrapped) :
                    /\ rk[2] \in DOMAIN dsw_out[rk[1]].values
                    /\ dsw_out[rk[1]].values[rk[2]] = v})

\* C12: each rank receives exactly ceil(len / num_replicas) values, and the
\* values of all ranks together are the wrapped sampler's output padded by
\* repetition to num_replicas * ceil(len / num_replicas) entries.
C12_EqualShares ==
    dsw.status = "ok" =>
        LET len == Len(dsw.sampler)
            share == IF len % dsw.num_replicas = 0 THEN len \div dsw.num_replicas
                     ELSE len \div dsw.num_replicas + 1
        IN  /\ \A rank \in Called :
                  /\ dsw_out[rank].status = "ok"
                  /\ Len(dsw_out[rank].values) = share
            /\ AllCalled =>
                  \A v \in SamplerValues :
                      /\ ReceivedCount(v) >= Occurrences(dsw.sampler, v)
                      /\ Occurrences(dsw.sampler, v) = 0 => ReceivedCount(v) = 0

\* C13: __iter__ returns a sequence whose k-th element is the wrapped
\* sampler's value at the k-th selected position, for every len, num_replicas
\* and rank, a rank with exactly one position included.
C13_ValuesNotPositions ==
    dsw.status = "ok" =>
        \A rank \in Called :
            /\ dsw_out[rank].status = "ok"
            /\ Len(dsw_out[rank].values) = Len(dsw_out[rank].positions)
            /\ \A k \in DOMAIN dsw_out[rank].values :
                  dsw_out[rank].values[k]
                      = dsw.sampler[dsw_out[rank].positions[k] + 1]

C15_LenIsPure ==
    [][mes_calls' = mes_calls =>
          /\ mes' = mes
          /\ mes_out' = mes_out /\ mes_cursor' = mes_cursor
          /\ mes_len' = mes.mini_epoch_len]_mesVars

\* C15 witness: __len__ was called between the windows of a shuffled pass
C15_Witness ==
    /\ mes.status = "ok"
    /\ mes_len = mes.mini_epoch_len
    /\ mes_calls >= 2
    /\ mes.state_i = 2
    /\ mes.indices # Arange(mes.data_len)

\* C16: with drop_last false, steps >= 1 and remainder r > 0, window c < steps
\* is the slice [c * mini_epoch_len, (c + 1) * mini_epoch_len) of the index
\* array and window c == steps is the slice [steps * mini_epoch_len,
\* max(data_len, mini_epoch_len)), so the divider = steps + 1 calls of a pass
\* return mini_epoch_len indices steps times and then r.
C16_RemainderWindow ==
    (MiniReturned /\ ~mes.drop_last /\ mes.steps >= 1 /\ Remainder > 0) =>
        LET c == mes_cursor
            lo == c * mes.mini_epoch_len
            hi == IF c < mes.steps THEN (c + 1) * mes.mini_epoch_len
                  ELSE SetMax({mes.data_len, mes.mini_epoch_len})
        IN  /\ mes.divider = mes.steps + 1
            /\ c \in 0..mes.steps
            /\ Len(mes_out) = IF c < mes.steps THEN mes.mini_epoch_len ELSE Remainder
            /\ Len(mes_out) = hi - lo
            /\ \A i \in 1..(hi - lo) : mes_out[i] = mes.indices[lo + i]

\* C16 witness: the last call of a pass of full windows followed by a shorter
\* one (for instance data_len 3 over windows of 2) has returned the remainder
C16_Witness ==
    /\ MiniReturned
    /\ ~mes.drop_last
    /\ mes.steps >= 1
    /\ mes.mini_epoch_len >= 2
    /\ mes_cursor = mes.steps
    /\ mes_calls = mes.divider
    /\ Len(mes_out) = Remainder
    /\ Remainder > 0

\* a per_epoch sampler whose windows are cut from a shuffled arange
PerEpochPass ==
    /\ mes.status = "ok"
    /\ mes.shuffle_type = "per_epoch"
    /\ mes.data_len >= mes.mini_epoch_len

\* the windows returned since cursor 0 hold this many indices in total
PassLengthSoFar ==
    IF mes_cursor < mes.steps THEN (mes_cursor + 1) * mes.mini_epoch_len
    ELSE mes.data_len

\* the state half of C17: the ordering is a permutation of the universe, the
\* last window is its slice at the cursor, the windows since cursor 0 are
\* pairwise disjoint (together they hold as many distinct indices as their
\* lengths add up to), and a complete pass without drop_last is the universe
C17_PassOfOnePermutation ==
    PerEpochPass =>
        /\ Len(mes.indices) = mes.data_len
        /\ Range(mes.indices) = Universe
        /\ MiniReturned =>
              /\ mes_out = Window([mes EXCEPT !.state_i = mes_cursor])
              /\ Cardinality(Range(mes_out)) = Len(mes_out)
              /\ Cardinality(mes_seen) = PassLengthSoFar
        /\ (PassComplete /\ ~mes.drop_last) => mes_seen = Universe

\* the step half of C17: a step that changes the ordering is an __iter__ call
\* that sliced at cursor 0; with shuffle None no step changes it
C17_OrderingChange ==
    /\ PerEpochPass /\ mes'.indices # mes.indices =>
          (mes_calls' = mes_calls + 1 /\ mes_cursor' = 0)
    /\ (mes.status = "ok" /\ mes.shuffle_type = "None") =>
          (mes'.indices = mes.indices /\ mes'.indices = Arange(mes.data_len))

\* C17: with shuffle per_epoch and data_len >= mini_epoch_len the ordering is
\* changed only by __iter__ calls whose reduced cursor is 0, so the windows of
\* one pass are slices of one permutation of the universe, pairwise disjoint,
\* and with drop_last false their union is the universe; with shuffle None the
\* ordering is never changed.
C17_PerEpochOrdering ==
    /\ []C17_PassOfOnePermutation
    /\ [][C17_OrderingChange]_mesVars

\* C17 witness: the second window of a second per_epoch pass of three or more
\* windows, cut from an ordering that is not the initial one
C17_Witness ==
    /\ PerEpochPass
    /\ MiniReturned
    /\ mes.divider >= 3
    /\ mes_calls = mes.divider + 2
    /\ mes_cursor = 1
    /\ mes.indices # Arange(mes.data_len)
    /\ Cardinality(mes_seen) = 2 * mes.mini_epoch_len

\* the bucket key of a dataset index
KeyOf(idx) == BucketKey(dls.zeros[idx])

\* the consumed indices of bucket key, in arrival order
ArrivalsOf(key) == SelectSeq(dls_consumed, LAMBDA idx : KeyOf(idx) = key)

\* the arrivals of bucket key that no full batch of the stream took
HeldOf(key) ==
    LET a == ArrivalsOf(key)
    IN  SubSeq(a, (Len(a) \div dls.batch_size) * dls.batch_size + 1, Len(a))

\* the bucket keys of the consumed indices
ConsumedKeys == {KeyOf(dls_consumed[i]) : i \in DOMAIN dls_consumed}

\* the held arrivals of the keys of a sequence of keys, one key after another
RECURSIVE HeldConcat(_)
HeldConcat(keys) ==
    IF keys = <<>> THEN <<>>
    ELSE HeldOf(Head(keys)) \o HeldConcat(Tail(keys))

\* what the buckets hold when the source is exhausted, by ascending bucket id
ExpectedLeftover == HeldConcat(SortedSeq(ConsumedKeys))

\* the number of full batches the stream emits
RECURSIVE SumFull(_)
SumFull(keys) ==
    IF keys = {} THEN 0
    ELSE LET k == CHOOSE x \in keys : TRUE
         IN  Len(ArrivalsOf(k)) \div dls.batch_size + SumFull(keys \ {k})
StreamedBatches == SumFull(ConsumedKeys)

\* C18: every emitted batch but possibly the last has batch_size indices;
\* once the source is exhausted the batches after those of the stream are the
\* chunks of batch_size of the remaining bucket contents taken in ascending
\* bucket id (arrival order within a bucket), and a final chunk shorter than
\* batch_size is emitted exactly when it is non-empty and drop_last is false.
C18_LeftoverBatches ==
    dls.status = "ok" =>
        LET B == dls.batch_size
            n == Len(dls_emitted)
        IN  /\ \A i \in 1..(n - 1) : Len(dls_emitted[i]) = B
            /\ n > 0 => Len(dls_emitted[n]) \in 1..B
            /\ ~Drained => \A i \in 1..n : Len(dls_emitted[i]) = B
            /\ Drained =>
                  LET lo == ExpectedLeftover
                      s == StreamedBatches
                      full == Len(lo) \div B
                      short == Len(lo) % B > 0 /\ ~dls.drop_last
                  IN  /\ n = s + full + (IF short THEN 1 ELSE 0)
                      /\ \A c \in 1..full :
                            dls_emitted[s + c] = SubSeq(lo, (c - 1) * B + 1, c * B)
                      /\ short => dls_emitted[n] = SubSeq(lo, full * B + 1, Len(lo))
                      /\ (n > 0 /\ Len(dls_emitted[n]) < B) <=> short

\* C18 witness: a drained pass that emitted a batch from the stream and then a
\* batch of the leftover whose two indices arrived in the other order (the
\* higher bucket first)
C18_Witness ==
    /\ gen.pc = "done"
    /\ StreamedBatches >= 1
    /\ Len(dls_emitted) > StreamedBatches
    /\ LET last == dls_emitted[Len(dls_emitted)]
           n == Len(dls_consumed)
       IN  /\ Len(last) = 2
           /\ KeyOf(last[1]) < KeyOf(last[2])
           /\ dls_consumed[n] = last[1]
           /\ dls_consumed[n - 1] = last[2]

\* the list that buckets[key] names
BucketOf(key) == gen.heap[gen.buckets[key]]

\* the number of times idx was consumed and not yet emitted
Pending(idx) == Occurrences(dls_consumed, idx) - EmittedCount(dls_emitted, idx)

\* C19: while the source is streamed, after every index each index consumed
\* and not yet emitted is held in exactly one bucket, that of its own key,
\* every bucket holds fewer than batch_size indices, and every batch emitted
\* so far has batch_size indices of one bucket key.
C19_HeldInOwnBucket ==
    gen.pc \in {"stream", "IndexError"} =>
        /\ \A idx \in 0..MaxIdx :
              /\ Pending(idx) > 0 => KeyOf(idx) \in 0..(NumBuckets - 1)
              /\ \A key \in 0..(NumBuckets - 1) :
                    Occurrences(BucketOf(key), idx) =
                        IF key = KeyOf(idx) THEN Pending(idx) ELSE 0
        /\ \A key \in 0..(NumBuckets - 1) : Len(BucketOf(key)) < dls.batch_size
        /\ \A b \in DOMAIN dls_emitted :
              /\ Len(dls_emitted[b]) = dls.batch_size
              /\ \A i, j \in DOMAIN dls_emitted[b] :
                    KeyOf(dls_emitted[b][i]) = KeyOf(dls_emitted[b][j])

\* the number of dataset indices with the label of idx
ClassSizeOf(idx) == Occurrences(bcs.labels, LabelOfIndex(idx))

\* C20: in every pass a class with at least samples_per_class indices is
\* drawn without replacement: none of its indices occurs twice, so only
\* indices of smaller classes repeat; in downsampling mode no index occurs
\* more than once and in upsampling mode every index of each largest class
\* occurs exactly once.
C20_WithoutReplacement ==
    (bcs.status = "ok" /\ bcs_calls > 0 /\ bcs_raised = "") =>
        /\ \A idx \in 0..(Len(bcs.labels) - 1) :
              /\ ClassSizeOf(idx) >= bcs.samples_per_class =>
                    Occurrences(bcs_out, idx) <= 1
              /\ Occurrences(bcs_out, idx) > 1 =>
                    ClassSizeOf(idx) < bcs.samples_per_class
        /\ (bcs.mode.isstr /\ bcs.mode.str = "downsampling") =>
              \A i, j \in DOMAIN bcs_out : bcs_out[i] = bcs_out[j] => i = j
        /\ (bcs.mode.isstr /\ bcs.mode.str = "upsampling") =>
              \A idx \in 0..(Len(bcs.labels) - 1) :
                  ClassSizeOf(idx) = SetMax(ClassSizes) =>
                      Occurrences(bcs_out, idx) = 1

\* C20 witness: an upsampling pass over unequal classes in which both indices
\* of the largest class occur once and an index of a smaller class twice
C20_Witness ==
    /\ bcs.status = "ok"
    /\ bcs_calls > 0
    /\ bcs.mode.isstr
    /\ bcs.mode.str = "upsampling"
    /\ bcs.samples_per_class >= 2
    /\ \E idx \in 0..(Len(bcs.labels) - 1) :
          ClassSizeOf(idx) < bcs.samples_per_class /\ Occurrences(bcs_out, idx) = 2
    /\ \E idx \in 0..(Len(bcs.labels) - 1) :
          ClassSizeOf(idx) = bcs.samples_per_class /\ Occurrences(bcs_out, idx) = 1
====
